---- MODULE Spec2Model ----
(***************************************************************************)
(* Model of the Equation package (src/Equation/core.py, util.py): the      *)
(* token scanner (Expression.__next), the shunting-yard compiler           *)
(* (Expression.__compile), the postfix evaluator (Expression.__call__),    *)
(* the canonical renderer (Expression.__repr__) and the expression algebra *)
(* (Expression.__combine / __icombine).                                    *)
(*                                                                         *)
(* Text is a sequence of one-character strings.  The scanner is modelled   *)
(* exactly for the characters of the universe below; the universe has no   *)
(* ".", "e" or "E", so every numeric literal is an integer (decimal, hex,  *)
(* octal, binary) or a complex number with integral parts.                 *)
(***************************************************************************)
EXTENDS Integers, Sequences, FiniteSets, TLC

(***************************************************************************)
(* Character classes of the regular expressions (core.py 995-1042).        *)
(***************************************************************************)
Digits == {"0", "1", "2", "3", "4", "5", "6", "7", "8", "9"}

OctDigits == {"0", "1", "2", "3", "4", "5", "6", "7"}

BinDigits == {"0", "1"}

\* the letters of [a-zA-Z_] that the model's texts use
Letters == {"a", "b", "f", "g", "h", "i", "j", "o", "s", "x", "y", "z"}

HexDigits == Digits \cup {"a", "b", "f"}

Whitespace == {" "}

DigitVal(c) ==
    CASE c = "0" -> 0 [] c = "1" -> 1 [] c = "2" -> 2 [] c = "3" -> 3
      [] c = "4" -> 4 [] c = "5" -> 5 [] c = "6" -> 6 [] c = "7" -> 7
      [] c = "8" -> 8 [] c = "9" -> 9 [] c = "a" -> 10 [] c = "b" -> 11
      [] c = "f" -> 15

DigitChar(d) ==
    CASE d = 0 -> "0" [] d = 1 -> "1" [] d = 2 -> "2" [] d = 3 -> "3"
      [] d = 4 -> "4" [] d = 5 -> "5" [] d = 6 -> "6" [] d = 7 -> "7"
      [] d = 8 -> "8" [] d = 9 -> "9"

Drop(s, n) == SubSeq(s, n + 1, Len(s))

Take(s, n) == SubSeq(s, 1, n)

\* length of the longest prefix of s whose characters are all in S (a greedy S*)
RECURSIVE Run(_, _)
Run(s, S) == IF s # <<>> /\ Head(s) \in S THEN 1 + Run(Tail(s), S) ELSE 0

IsPrefix(p, s) == Len(p) <= Len(s) /\ Take(s, Len(p)) = p

\* int(digits, base)
RECURSIVE ParseInt(_, _)
ParseInt(s, base) ==
    IF s = <<>> THEN 0
    ELSE ParseInt(Take(s, Len(s) - 1), base) * base + DigitVal(s[Len(s)])

\* str(n) for a natural number
RECURSIVE NatStr(_)
NatStr(n) == IF n < 10 THEN <<DigitChar(n)>>
             ELSE NatStr(n \div 10) \o <<DigitChar(n % 10)>>

Abs(n) == IF n < 0 THEN -n ELSE n

(***************************************************************************)
(* Literal values.  An int is [t |-> "int", re |-> n]; a complex literal   *)
(* keeps both parts (floats with integral value) and the sign of a zero    *)
(* part, which str() shows.                                                *)
(***************************************************************************)
IntVal(n) == [t |-> "int", re |-> n, im |-> 0, nzre |-> FALSE, nzim |-> FALSE]

ComplexVal(rsign, r, isign, i) ==
    [t |-> "complex", re |-> rsign * r, im |-> isign * i,
     nzre |-> (rsign < 0 /\ r = 0), nzim |-> (isign < 0 /\ i = 0)]

\* str() of one float part of a complex number
PartStr(v, nz) == (IF v < 0 \/ nz THEN <<"-">> ELSE <<>>) \o NatStr(Abs(v))

(***************************************************************************)
(* A float literal n / 10^scale, as float() reads it from the digits of    *)
(* the rvalue group, and its display (ExpressionValue.toStr).              *)
(***************************************************************************)
FloatVal(n, scale) == [t |-> "float", n |-> n, scale |-> scale]

RECURSIVE Pow10(_)
Pow10(e) == IF e <= 0 THEN 1 ELSE 10 * Pow10(e - 1)

\* the fraction without its trailing zeros, as str() of a float shows it
RECURSIVE Shortest(_, _)
Shortest(n, scale) ==
    IF scale > 0 /\ n % 10 = 0 THEN Shortest(n \div 10, scale - 1)
    ELSE [n |-> n, scale |-> scale]

\* the digits of n, padded with zeros on the left to width characters
RECURSIVE Padded(_, _)
Padded(n, width) ==
    IF Len(NatStr(n)) >= width THEN NatStr(n) ELSE <<"0">> \o Padded(n, width - 1)

\* the significant digits of n > 0: its digits without the zeros that end
\* them, the digits that str() of a float shows
RECURSIVE Significant(_)
Significant(n) == IF n % 10 = 0 THEN Significant(n \div 10) ELSE NatStr(n)

\* str() of the float n / 10^scale in positional form
FloatPositional(n, scale) ==
    (IF n < 0 THEN <<"-">> ELSE <<>>)
       \o NatStr(Abs(n) \div Pow10(scale)) \o <<".">>
       \o (IF Shortest(Abs(n), scale).scale = 0 THEN <<"0">>
           ELSE Padded(Shortest(Abs(n), scale).n % Pow10(Shortest(Abs(n), scale).scale),
                       Shortest(Abs(n), scale).scale))

\* str() of a float in exponent form: the first digit, the others after a
\* point, and the exponent e with its sign and two digits at least
FloatExponent(neg, digits, e) ==
    (IF neg THEN <<"-">> ELSE <<>>)
       \o <<digits[1]>>
       \o (IF Len(digits) > 1 THEN <<".">> \o Drop(digits, 1) ELSE <<>>)
       \o <<"e">> \o (IF e < 0 THEN <<"-">> ELSE <<"+">>)
       \o Padded(Abs(e), 2)

\* str() of the float n / 10^scale: the exponent form below 0.0001 and from
\* 10^16, the positional form between them and for 0
FloatRepr(n, scale) ==
    IF n # 0 /\ (Len(NatStr(Abs(n))) - 1 - scale < 0 - 4
                 \/ Len(NatStr(Abs(n))) - 1 - scale >= 16)
    THEN FloatExponent(n < 0, Significant(Abs(n)),
                       Len(NatStr(Abs(n))) - 1 - scale)
    ELSE FloatPositional(n, scale)

\* ExpressionValue.toRepr: str(self.value)
ValueToRepr(v) ==
    IF v.t = "int" THEN PartStr(v.re, FALSE)
    ELSE IF v.t = "float" THEN FloatRepr(v.n, v.scale)
    ELSE IF v.re = 0 /\ ~v.nzre THEN PartStr(v.im, v.nzim) \o <<"j">>
    ELSE <<"(">> \o PartStr(v.re, v.nzre)
         \o (IF v.im < 0 \/ v.nzim THEN <<"-">> ELSE <<"+">>)
         \o NatStr(Abs(v.im)) \o <<"j", ")">>

\* len(str(V)) for V = n / 10^scale
StrLen(n, scale) == Len(FloatRepr(n, scale))

\* core.py 78-79: int(math.floor(math.log10(abs(V))))
Exponent(n, scale) == Len(NatStr(Abs(n))) - 1 - scale

\* B and E without the band of integral values: always the mantissa
Resolved_NoIntegerBand(n, scale) ==
    IF n = 0 THEN [int |-> TRUE, b |-> 0, scale |-> 0, e |-> 0]
    ELSE [int |-> FALSE, b |-> n, scale |-> scale + Exponent(n, scale),
          e |-> Exponent(n, scale)]

\* core.py 74-85: B and E.  B is an int, or the float b / 10^scale
Resolved(n, scale) ==
    IF n = 0 THEN [int |-> TRUE, b |-> 0, scale |-> 0, e |-> 0]
    ELSE IF Exponent(n, scale) \in 0..3 /\ Abs(n) % Pow10(scale) = 0
    THEN [int |-> TRUE, b |-> (Abs(n) \div Pow10(scale)) * (IF n < 0 THEN -1 ELSE 1),
          scale |-> 0, e |-> 0]
    ELSE IF Exponent(n, scale) \in {-1, -2} /\ StrLen(n, scale) <= 7
    THEN [int |-> FALSE, b |-> n, scale |-> scale, e |-> 0]
    ELSE [int |-> FALSE, b |-> n, scale |-> scale + Exponent(n, scale),
          e |-> Exponent(n, scale)]

(***************************************************************************)
(* The binary floats of core.py 79 and 90.  A natural number of any size   *)
(* is the sequence of its digits in base Limb, the lowest first; a float   *)
(* is the pair [m, t] that stands for m / 2^t, m of 53 bits.               *)
(***************************************************************************)
Limb == 2 ^ 15

RECURSIVE Big(_)
Big(n) == IF n = 0 THEN <<>> ELSE <<n % Limb>> \o Big(n \div Limb)

RECURSIVE ToInt(_)
ToInt(a) == IF a = <<>> THEN 0 ELSE Head(a) + Limb * ToInt(Tail(a))

RECURSIVE Trim(_)
Trim(a) ==
    IF a # <<>> /\ a[Len(a)] = 0 THEN Trim(SubSeq(a, 1, Len(a) - 1)) ELSE a

Lo(a) == IF a = <<>> THEN 0 ELSE Head(a)

Hi(a) == IF a = <<>> THEN <<>> ELSE Tail(a)

RECURSIVE BigAdd(_, _, _)
BigAdd(a, b, carry) ==
    IF a = <<>> /\ b = <<>> THEN Big(carry)
    ELSE <<(Lo(a) + Lo(b) + carry) % Limb>>
            \o BigAdd(Hi(a), Hi(b), (Lo(a) + Lo(b) + carry) \div Limb)

RECURSIVE MulLimb(_, _, _)
MulLimb(a, d, carry) ==
    IF a = <<>> THEN Big(carry)
    ELSE <<(Head(a) * d + carry) % Limb>>
            \o MulLimb(Tail(a), d, (Head(a) * d + carry) \div Limb)

RECURSIVE BigMulRaw(_, _)
BigMulRaw(a, b) ==
    IF b = <<>> THEN <<>>
    ELSE BigAdd(MulLimb(a, Head(b), 0), <<0>> \o BigMulRaw(a, Tail(b)), 0)

BigMul(a, b) == Trim(BigMulRaw(a, b))

RECURSIVE CmpFrom(_, _, _)
CmpFrom(a, b, i) ==
    IF i = 0 THEN 0
    ELSE IF a[i] < b[i] THEN -1
    ELSE IF a[i] > b[i] THEN 1
    ELSE CmpFrom(a, b, i - 1)

\* -1, 0 or 1 as a is below, equal to or above b
BigCmp(a, b) ==
    IF Len(a) < Len(b) THEN -1
    ELSE IF Len(a) > Len(b) THEN 1
    ELSE CmpFrom(a, b, Len(a))

\* a * 2^k
Shl(a, k) ==
    IF a = <<>> THEN <<>>
    ELSE [i \in 1..(k \div 15) |-> 0] \o Trim(MulLimb(a, 2 ^ (k % 15), 0))

RECURSIVE Bits(_)
Bits(n) == IF n = 0 THEN 0 ELSE 1 + Bits(n \div 2)

BitLen(a) == IF a = <<>> THEN 0 ELSE 15 * (Len(a) - 1) + Bits(a[Len(a)])

\* floor(x / y), one bit of the quotient at a time: s.q is the quotient so
\* far and s.p = s.q * y; si is s with bit i of the quotient set.  QuotBits
\* decides the bits i down to lo of one digit, QuotLimbs the digits j down
\* to 0
RECURSIVE QuotBits(_, _, _, _, _)
QuotBit(x, y, s, i, lo, si) ==
    IF BigCmp(si.p, x) <= 0 THEN QuotBits(x, y, si, i - 1, lo)
    ELSE QuotBits(x, y, s, i - 1, lo)

QuotBits(x, y, s, i, lo) ==
    IF i < lo THEN s
    ELSE QuotBit(x, y, s, i, lo, [q |-> Trim(BigAdd(s.q, Shl(<<1>>, i), 0)),
                                  p |-> Trim(BigAdd(s.p, Shl(y, i), 0))])

RECURSIVE QuotLimbs(_, _, _, _)
QuotLimbs(x, y, s, j) ==
    IF j < 0 THEN s.q
    ELSE QuotLimbs(x, y, QuotBits(x, y, s, 15 * j + 14, 15 * j), j - 1)

\* the digits 1..i of floor(a / d) for one digit d, from digit i down; rem
\* is what the digits above have left, cur the number divided at digit i
RECURSIVE DivFrom(_, _, _, _)
DivDigit(a, d, i, cur) == Append(DivFrom(a, d, i - 1, cur % d), cur \div d)

DivFrom(a, d, i, rem) ==
    IF i = 0 THEN <<>> ELSE DivDigit(a, d, i, rem * Limb + a[i])

\* floor(a / 2^k)
Shr(a, k) ==
    IF Len(a) <= k \div 15 THEN <<>>
    ELSE Trim(DivFrom(SubSeq(a, k \div 15 + 1, Len(a)), 2 ^ (k % 15),
                      Len(a) - k \div 15, 0))

\* floor(x / y); by one digit it is a short division, by a power of two a
\* shift
BigDiv(x, y) ==
    IF BigCmp(x, y) < 0 THEN <<>>
    ELSE IF Len(y) = 1 THEN Trim(DivFrom(x, y[1], Len(x), 0))
    ELSE IF y = Shl(<<1>>, BitLen(y) - 1) THEN Shr(x, BitLen(y) - 1)
    ELSE QuotLimbs(x, y, [q |-> <<>>, p |-> <<>>],
                   (BitLen(x) - BitLen(y)) \div 15)

\* q = floor(x / y) rounded to the nearest integer, a tie to the even one;
\* c compares 2x with (2q + 1) * y
NearestBy(q, c) ==
    IF c < 0 \/ (c = 0 /\ Lo(q) % 2 = 0) THEN q ELSE Trim(BigAdd(q, <<1>>, 0))

Nearest(x, y, q) ==
    NearestBy(q, BigCmp(Shl(x, 1), BigMul(BigAdd(Shl(q, 1), <<1>>, 0), y)))

RoundDiv(x, y) == Nearest(x, y, BigDiv(x, y))

\* floor(log2(x / y))
Log2(x, y) ==
    IF (IF BitLen(x) >= BitLen(y)
        THEN BigCmp(x, Shl(y, BitLen(x) - BitLen(y)))
        ELSE BigCmp(Shl(x, BitLen(y) - BitLen(x)), y)) >= 0
    THEN BitLen(x) - BitLen(y)
    ELSE BitLen(x) - BitLen(y) - 1

\* x / (y * 2^s) rounded to an integer, s of either sign
RoundShift(x, y, s) ==
    IF s >= 0 THEN Nearest(x, Shl(y, s), BigDiv(Shr(x, s), y))
    ELSE RoundDiv(Shl(x, -s), y)

\* the float nearest to x / (y * 2^s): 53 bits, round half to even
FloatAt(x, y, s, t) == [m |-> RoundShift(x, y, s - t), t |-> t]

Float(x, y, s) == FloatAt(x, y, s, 52 - Log2(x, y) + s)

\* float * float
FloatMul(a, b) == Float(BigMul(a.m, b.m), <<1>>, a.t + b.t)

RECURSIVE Pow5(_)
Pow5(k) == IF k = 0 THEN 1 ELSE 5 * Pow5(k - 1)

\* the float nearest to n / 10^k, with 10^k as 5^k * 2^k
Decimal64(n, k) == Float(Big(n), Big(Pow5(k)), k)

\* core.py 79: B = V * 10 ** -E for V = |b| / 10^(scale - e) and E = e;
\* 10 ** -E is an int for E <= 0 and the float nearest to 10^-E for E > 0
FloatB(b, scale, e) ==
    IF e = 0 THEN Decimal64(Abs(b), scale)
    ELSE IF e < 0
    THEN FloatMul(Decimal64(Abs(b), scale - e), Decimal64(Pow10(-e), 0))
    ELSE FloatMul(Decimal64(Abs(b), scale - e), Decimal64(1, e))

\* the float f times 10^5 rounded to an integer, half to even
Scaled5(f) == ToInt(RoundShift(BigMul(f.m, Big(100000)), <<1>>, f.t))

\* the digits of "{0:.5f}".format(|B|), core.py 90
Rounded5(b, scale, e) == Scaled5(FloatB(b, scale, e))

\* the digits d written with five decimals
Point5(d) == NatStr(d \div 100000) \o <<".">> \o Padded(d % 100000, 5)

\* "{0:.5f}" without the sign
Fixed5(b, scale, e) == Point5(Rounded5(b, scale, e))

\* str.rstrip("0.")
RECURSIVE RStrip(_)
RStrip(text) ==
    IF text # <<>> /\ text[Len(text)] \in {"0", "."}
    THEN RStrip(SubSeq(text, 1, Len(text) - 1))
    ELSE text

\* the sign the format writes: "-" flag or "+" flag
FormatSign(neg, plus) == IF neg THEN <<"-">> ELSE IF plus THEN <<"+">> ELSE <<>>

\* core.py 86-89 and 55-62: the mantissa r written by the format
Mantissa(r, plus) ==
    IF r.int THEN FormatSign(r.b < 0, plus) \o NatStr(Abs(r.b))
    ELSE RStrip(FormatSign(r.b < 0, plus) \o Fixed5(r.b, r.scale, r.e))

\* "\\times10^{E}", or nothing when E is 0
Times10(e) ==
    IF e = 0 THEN <<>>
    ELSE <<"\\", "t", "i", "m", "e", "s", "1", "0", "^", "{">>
            \o FormatSign(e < 0, FALSE) \o NatStr(Abs(e)) \o <<"}">>

Left == <<"\\", "l", "e", "f", "t", "(">>

Right == <<"\\", "r", "i", "g", "h", "t", ")">>

Imath == <<"\\", "i", "m", "a", "t", "h">>

\* core.py 70-93: a float
FloatToStr(r) ==
    IF r.e # 0 THEN Left \o Mantissa(r, FALSE) \o Times10(r.e) \o Right
    ELSE Mantissa(r, FALSE)

\* core.py 39-69: a complex number, each part a float
ComplexToStr(re, im) ==
    Left \o Mantissa(re, FALSE) \o Times10(re.e)
         \o Mantissa(im, TRUE) \o Imath \o Times10(im.e) \o Right

\* ExpressionValue.toStr
ValueToStr(v) ==
    IF v.t = "complex" THEN ComplexToStr(Resolved(v.re, 0), Resolved(v.im, 0))
    ELSE IF v.t = "float" THEN FloatToStr(Resolved(v.n, v.scale))
    ELSE PartStr(v.re, FALSE)

(***************************************************************************)
(* The registry (core.py 990-993), as util.addOp / addUnaryOp / addFn      *)
(* fill it.  Identifiers are texts.  A template is a sequence of pieces,   *)
(* each a literal character or a numbered slot "{i:s}".                    *)
(***************************************************************************)
Ch(c) == [slot |-> -1, ch |-> c]

Slot(i) == [slot |-> i, ch |-> ""]

BinForm(c) == <<Ch("("), Slot(0), Ch(" "), Ch(c), Ch(" "), Slot(1), Ch(")")>>

\* the display template of a binary operator: "{0:s} + {1:s}"
BinDisplay(c) == <<Slot(0), Ch(" "), Ch(c), Ch(" "), Slot(1)>>

RECURSIVE Lits(_)
Lits(s) == IF s = <<>> THEN <<>> ELSE <<Ch(Head(s))>> \o Lits(Tail(s))

FnForm(id) == Lits(id) \o <<Ch("("), Slot(0), Ch(")")>>

\* the display template of a function: "f[{0:s}]"
FnDisplay(id) == Lits(id) \o <<Ch("["), Slot(0), Ch("]")>>

\* accepted argument counts of a function: a fixed integer, a list, or "+"
ArgsInt(n) == [type |-> "int", n |-> n, set |-> {}]

ArgsList(S) == [type |-> "list", n |-> 0, set |-> S]

ArgsPlus == [type |-> "plus", n |-> 0, set |-> {}]

\* a list of counts that also holds the string "*"
ArgsStar(S) == [type |-> "star", n |-> 0, set |-> S]

\* util.addOp: args is always 2
addOp(c, prec, func) ==
    [str |-> BinForm(c), latex |-> BinDisplay(c), args |-> ArgsInt(2),
     prec |-> prec, func |-> func]

\* util.addUnaryOp: args 1, prec 0
addUnaryOp(form, display, func) ==
    [str |-> form, latex |-> display, args |-> ArgsInt(1), prec |-> 0,
     func |-> func]

\* a registry entry without a "prec" key
NoPrec == -1

\* util.addFn: no "prec" key
addFn(id, num_args, func) ==
    [str |-> FnForm(id), latex |-> FnDisplay(id), args |-> num_args,
     prec |-> NoPrec, func |-> func]

ops ==
    (<<"+">> :> addOp("+", 3, "add")) @@ (<<"-">> :> addOp("-", 3, "sub"))
    @@ (<<"*">> :> addOp("*", 2, "mul"))

unary_ops ==
    (<<"-">> :> addUnaryOp(<<Ch("-"), Ch("("), Slot(0), Ch(")")>>,
                           <<Ch("-"), Slot(0)>>, "neg"))

functions ==
    (<<"f">> :> addFn(<<"f">>, ArgsInt(2), "sub"))
    @@ (<<"g">> :> addFn(<<"g">>, ArgsPlus, "sum"))
    @@ (<<"h">> :> addFn(<<"h">>, ArgsList({1, 2}), "prod"))

\* a number as the evaluator computes with it (real and imaginary part)
Num(re, im) == [re |-> re, im |-> im]

constants == (<<"z">> :> Num(7, 0))

(***************************************************************************)
(* Tokens: (payload, kind).  The payload is a text, or a value for VALUE.  *)
(***************************************************************************)
Token(text, kind) == [text |-> text, kind |-> kind, value |-> IntVal(0)]

ValueToken(v) == [text |-> <<>>, kind |-> "VALUE", value |-> v]

NoToken == Token(<<>>, "NONE")

NoMatch == [ok |-> FALSE, end |-> 0, tok |-> NoToken]

\* gsmatch, gematch, smatch: \s* followed by the one character c
MatchChar(s, c, kind) ==
    LET w == Run(s, Whitespace)
    IN  IF Len(s) > w /\ s[w + 1] = c
        THEN [ok |-> TRUE, end |-> w + 1, tok |-> Token(<<c>>, kind)]
        ELSE NoMatch

\* fmatch, omatch, umatch as recalculateFMatch builds them: \s* followed by
\* the alternation of the keys, longest first (an empty alternation matches
\* the empty text)
recalculateFMatch(s, keys, kind) ==
    LET w == Run(s, Whitespace)
        rest == Drop(s, w)
        cands == {k \in keys : IsPrefix(k, rest)}
    IN  IF keys = {}
        THEN [ok |-> TRUE, end |-> w, tok |-> Token(<<>>, kind)]
        ELSE IF cands = {} THEN NoMatch
        ELSE LET k == CHOOSE c \in cands : \A o \in cands : Len(o) <= Len(c)
             IN  [ok |-> TRUE, end |-> w + Len(k), tok |-> Token(k, kind)]

\* nmatch: \s*([a-zA-Z_][a-zA-Z0-9_]*)
nmatch(s) ==
    LET w == Run(s, Whitespace)
        rest == Drop(s, w)
    IN  IF rest # <<>> /\ Head(rest) \in Letters \cup {"_"}
        THEN LET n == 1 + Run(Tail(rest), Letters \cup Digits \cup {"_"})
             IN  [ok |-> TRUE, end |-> w + n, tok |-> Token(Take(rest, n), "NAME")]
        ELSE NoMatch

SignOf(s) == IF s = <<"-">> THEN -1 ELSE 1

\* one "0o" / "0x" / "0b" alternative of vmatch, after the sign and blanks
Prefixed(r, p, D) ==
    IF Len(r) >= 2 /\ r[1] = "0" /\ r[2] = p THEN Run(Drop(r, 2), D) ELSE 0

\* \s* skipped
SkipWs(s) == Drop(s, Run(s, Whitespace))

\* \+? skipped
SkipPlus(r) == IF r # <<>> /\ Head(r) = "+" THEN Tail(r) ELSE r

\* the length of [+-]? at the head of r
SignLen(r) == IF r # <<>> /\ Head(r) \in {"+", "-"} THEN 1 ELSE 0

\* the digits and the [ij] of the imaginary tail; r5 is what is left of r
\* after the blanks and signs
ImagDigits(r, isign, r5) ==
    LET m == Run(r5, Digits)
    IN  IF m >= 1 /\ Len(r5) > m /\ r5[m + 1] \in {"i", "j"}
        THEN [len |-> Len(r) - Len(r5) + m + 1, isign |-> isign,
              ivalue |-> ParseInt(Take(r5, m), 10)]
        ELSE [len |-> 0, isign |-> 1, ivalue |-> 0]

\* the [+-]? \s* of the imaginary tail; r3 is what is left of r after \s*\+?\s*
ImagSign(r, r3) ==
    ImagDigits(r, SignOf(Take(r3, SignLen(r3))), SkipWs(Drop(r3, SignLen(r3))))

\* the optional imaginary tail of the decimal alternative:
\*   \s* \+? \s* [+-]? \s* digits [ij]
\* returns its length (0: no tail), sign and digits
ComplexTail(r) == ImagSign(r, SkipWs(SkipPlus(SkipWs(r))))

\* the decimal alternative of vmatch: nd digits and the optional tail
Decimal(pre, sign, r3, nd, tail) ==
    IF tail.len > 0
    THEN [ok |-> TRUE, end |-> pre + nd + tail.len,
          tok |-> ValueToken(ComplexVal(sign, ParseInt(Take(r3, nd), 10),
                                        tail.isign, tail.ivalue))]
    ELSE [ok |-> TRUE, end |-> pre + nd,
          tok |-> ValueToken(IntVal(sign * ParseInt(Take(r3, nd), 10)))]

\* the alternatives of vmatch after the sign and the blanks, which took pre
\* characters, in the order of the regular expression
Number(pre, sign, r3) ==
    LET no == Prefixed(r3, "o", OctDigits)
        nx == Prefixed(r3, "x", HexDigits)
        nb == Prefixed(r3, "b", BinDigits)
        nd == Run(r3, Digits)
        based(n, base) ==
            [ok |-> TRUE, end |-> pre + 2 + n,
             tok |-> ValueToken(IntVal(sign * ParseInt(SubSeq(r3, 3, 2 + n), base)))]
    IN  IF no >= 1 THEN based(no, 8)
        ELSE IF nx >= 1 THEN based(nx, 16)
        ELSE IF nb >= 1 THEN based(nb, 2)
        ELSE IF nd >= 1
        THEN Decimal(pre, sign, r3, nd, ComplexTail(Drop(r3, nd)))
        ELSE NoMatch

\* the [+-]? \s* of vmatch; r is what is left of s after \s*
Signed(s, r) ==
    Number(Len(s) - Len(SkipWs(Drop(r, SignLen(r)))), SignOf(Take(r, SignLen(r))),
           SkipWs(Drop(r, SignLen(r))))

\* vmatch and the conversion of its groups (core.py 383-418)
vmatch(s) == Signed(s, SkipWs(s))

\* core.py 400-406 for an rvalue with a decimal point and no exponent:
\* float(g["rvalue"]) of the digits before and after the point
FloatLiteral(whole, fraction) ==
    FloatVal(ParseInt(whole \o fraction, 10), Len(fraction))

\* first match of a list of matches
FirstMatch(ms) ==
    IF \E i \in 1..Len(ms) : ms[i].ok
    THEN ms[CHOOSE i \in 1..Len(ms) : ms[i].ok /\ \A j \in 1..(i - 1) : ~ms[j].ok]
    ELSE NoMatch

(***************************************************************************)
(* Expression.__next: the next token of the remaining text.                *)
(* status "end": empty remainder; "token"; "SyntaxError": nothing matches. *)
(***************************************************************************)
\* core.py 421-443: the token of the first rule that matched, or SyntaxError
Matched(expression, m) ==
    IF m.ok
    THEN [status |-> "token", tok |-> m.tok, rest |-> Drop(expression, m.end)]
    ELSE [status |-> "SyntaxError", tok |-> NoToken, rest |-> expression]

scan(expression, expect_op, opkeys, fnkeys, unkeys) ==
    IF Len(expression) = 0
    THEN [status |-> "end", tok |-> NoToken, rest |-> expression]
    ELSE Matched(expression,
                 FirstMatch(
                    <<MatchChar(expression, "(", "OPEN"),
                      MatchChar(expression, ")", "CLOSE")>>
                    \o (IF expect_op
                        THEN <<MatchChar(expression, ",", "SEP"),
                               recalculateFMatch(expression, opkeys, "OP")>>
                        ELSE <<vmatch(expression), nmatch(expression),
                               recalculateFMatch(expression, fnkeys, "FUNC"),
                               recalculateFMatch(expression, unkeys, "UNARY")>>)))

\* __next with omatch, fmatch and umatch as recalculateFMatch built them
\* from the registry of this model
next(expression, expect_op) ==
    scan(expression, expect_op, DOMAIN ops, DOMAIN functions, DOMAIN unary_ops)

(***************************************************************************)
(* Instructions of the compiled program (core.py 33-175).                  *)
(***************************************************************************)
ExpressionValue(v) ==
    [kind |-> "Value", value |-> v, name |-> <<>>, func |-> "",
     nargs |-> ArgsInt(0), form |-> <<>>, display |-> <<>>, id |-> <<>>,
     isfunc |-> FALSE]

ExpressionVariable(name) ==
    [kind |-> "Variable", value |-> IntVal(0), name |-> name, func |-> "",
     nargs |-> ArgsInt(0), form |-> <<>>, display |-> <<>>, id |-> <<>>,
     isfunc |-> FALSE]

ExpressionFunction(function, nargs, form, display, id, isfunc) ==
    [kind |-> "Function", value |-> IntVal(0), name |-> <<>>, func |-> function,
     nargs |-> nargs, form |-> form, display |-> display, id |-> id,
     isfunc |-> isfunc]

(***************************************************************************)
(* Expression.__getfunction.  The else branch formats a tuple with {0:s},  *)
(* which raises TypeError before the ValueError is built.                  *)
(***************************************************************************)
getfunction(op) ==
    IF op.kind = "FUNC" THEN [err |-> "", fn |-> functions[op.text]]
    ELSE IF op.kind = "UNARY"
    THEN [err |-> "", fn |-> [unary_ops[op.text] EXCEPT !.args = ArgsInt(1)]]
    ELSE IF op.kind = "OP" THEN [err |-> "", fn |-> ops[op.text]]
    ELSE [err |-> "TypeError", fn |-> addFn(<<>>, ArgsInt(0), "")]

\* the instruction emitted for an operator popped from the stack
Emit(fs, op) ==
    ExpressionFunction(fs.func, fs.args, fs.str, fs.latex, op.text, FALSE)

Pop(stack) == Take(stack, Len(stack) - 1)

Top(stack) == stack[Len(stack)]

(***************************************************************************)
(* The state of one run of Expression.__compile: the locals of the method  *)
(* and the fields of the object under construction.  args is the list the  *)
(* caller passed as argorder (the object keeps that very list); argorder   *)
(* is what that list held at the call.                                     *)
(***************************************************************************)
\* keys: the identifiers of ops, functions and unary_ops that omatch,
\* fmatch and umatch were built from (recalculateFMatch, core.py 1045-1052)
CompileInitWith(text, argorder, keys) ==
    [expression |-> text, stack |-> <<>>, arg_count |-> <<>>,
     expect_op |-> FALSE, prev_token |-> NoToken, expr |-> <<>>,
     args |-> argorder, argsused |-> {}, status |-> "run", why |-> "",
     argorder |-> argorder, keys |-> keys]

\* the three tables with everything this model registers
RegistryKeys ==
    [ops |-> DOMAIN ops, functions |-> DOMAIN functions,
     unary_ops |-> DOMAIN unary_ops]

CompileInit(text, argorder) == CompileInitWith(text, argorder, RegistryKeys)

Raise(c, error, why) == [c EXCEPT !.status = error, !.why = why]

\* the end of a branch of the loop body: the next token is an operand
ExpectOperand(c) == IF c.status # "run" THEN c ELSE [c EXCEPT !.expect_op = FALSE]

\* the end of a branch of the loop body: the next token is an operator
ExpectOperator(c) == IF c.status # "run" THEN c ELSE [c EXCEPT !.expect_op = TRUE]

\* core.py 818-834: backtrack through the stack until the last OPEN; fs is
\* the registry entry of op
RECURSIVE CloseLoop(_, _)
RECURSIVE CloseEmit(_, _, _)
CloseEmit(c, op, fs) ==
    IF fs.err # "" THEN Raise(c, fs.err, "getfunction")
    ELSE IF Len(c.stack) > 0
    THEN CloseLoop([c EXCEPT !.expr = Append(@, Emit(fs.fn, op)), !.stack = Pop(@)],
                   Top(c.stack))
    ELSE Raise([c EXCEPT !.expr = Append(@, Emit(fs.fn, op))],
               "SyntaxError", "unmatched_close")

CloseLoop(c, op) ==
    IF op.kind = "OPEN" THEN c ELSE CloseEmit(c, op, getfunction(op))

\* core.py 850-857: the argument count check of a function call
NargsCheck(fsargs, num_args) ==
    IF fsargs.type = "plus" THEN ""
    ELSE IF fsargs.type = "int"
    THEN IF num_args # fsargs.n THEN "TypeError" ELSE ""
    ELSE IF num_args \notin fsargs.set THEN "SyntaxError" ELSE ""

\* core.py 838-868: the function call closed by this CLOSE, if any, once the
\* loop above has found its OPEN
CloseCall(c) ==
    IF c.status # "run" THEN c
    ELSE IF Len(c.stack) > 0 /\ Top(c.stack).text \in c.keys.functions
    THEN LET op == Top(c.stack)
             fs == functions[op.text]
             counted == c.arg_count[Len(c.arg_count)]
             num_args == IF c.prev_token.kind = "OPEN" THEN 0 ELSE counted
             c1 == [c EXCEPT !.stack = Pop(@), !.arg_count = Pop(@)]
             chk == NargsCheck(fs.args, num_args)
         IN  IF chk # "" THEN Raise(c1, chk, "nargs")
             ELSE [c1 EXCEPT !.expr = Append(@, ExpressionFunction(
                       fs.func, ArgsInt(num_args), fs.str, fs.latex, op.text, TRUE))]
    ELSE c

\* core.py 807-870
Close(c) ==
    IF Len(c.stack) = 0 THEN Raise(c, "SyntaxError", "unmatched_close")
    ELSE ExpectOperator(
            CloseCall(CloseLoop([c EXCEPT !.stack = Pop(@)], Top(c.stack))))

\* core.py 875-884: pop up to the enclosing OPEN and push it back; op has
\* been popped and fs is its registry entry
RECURSIVE SepLoop(_)
RECURSIVE SepEmit(_, _, _)
SepEmit(c, op, fs) ==
    IF fs.err # "" THEN Raise(c, fs.err, "getfunction")
    ELSE SepLoop([c EXCEPT !.expr = Append(@, Emit(fs.fn, op))])

SepLoop(c) ==
    IF Len(c.stack) = 0 THEN Raise(c, "IndexError", "pop")
    ELSE IF Top(c.stack).kind = "OPEN" THEN c
    ELSE SepEmit([c EXCEPT !.stack = Pop(@)], Top(c.stack), getfunction(Top(c.stack)))

\* core.py 873-885
Separator(c) ==
    IF Len(c.arg_count) = 0 THEN Raise(c, "IndexError", "arg_count")
    ELSE ExpectOperand(SepLoop([c EXCEPT !.arg_count[Len(c.arg_count)] = @ + 1]))

\* the comparison the other way round: the stack operator's integer is the
\* greater or equal one
PopsBefore_Reversed(fn, fs) == fs.prec >= fn.prec

\* the comparison of core.py 908: the stack operator fs is emitted before
\* the incoming operator fn is pushed
PopsBefore(fn, fs) == fn.prec >= fs.prec

\* core.py 906-931; op has been popped and is not "(", fs is its registry
\* entry and fn that of the incoming token
RECURSIVE OpLoop(_, _, _)
RECURSIVE OpEmit(_, _, _, _, _)
OpEmit(c, op, token, fs, fn) ==
    IF fs.err # "" THEN Raise(c, fs.err, "getfunction")
    ELSE IF fs.fn.prec = NoPrec THEN Raise(c, "KeyError", "prec")
    ELSE IF PopsBefore(fn, fs.fn)
    THEN IF Len(c.stack) = 0 \/ Top(c.stack).text = <<"(">>
         THEN [c EXCEPT !.expr = Append(@, Emit(fs.fn, op)),
                        !.stack = Append(@, token)]
         ELSE OpLoop([c EXCEPT !.expr = Append(@, Emit(fs.fn, op)), !.stack = Pop(@)],
                     Top(c.stack), token)
    ELSE [c EXCEPT !.stack = Append(Append(@, op), token)]

OpLoop(c, op, token) == OpEmit(c, op, token, getfunction(op), ops[token.text])

\* core.py 888-932
Operator(c, token) ==
    ExpectOperand(IF Len(c.stack) = 0 \/ Top(c.stack).text = <<"(">>
                  THEN [c EXCEPT !.stack = Append(@, token)]
                  ELSE OpLoop([c EXCEPT !.stack = Pop(@)], Top(c.stack), token))

\* Open without the check of the previous token
Open_NoCheck(c, token) ==
    [c EXCEPT !.stack = Append(@, token), !.expect_op = FALSE]

\* core.py 794-804
Open(c, token) ==
    IF c.prev_token.kind \in {"CLOSE", "VALUE"}
    THEN Raise(c, "SyntaxError", "implicit_mul")
    ELSE [c EXCEPT !.stack = Append(@, token), !.expect_op = FALSE]

\* core.py 947-954
Name(c, token) ==
    [c EXCEPT !.argsused = @ \cup {token.text},
              !.args = IF \E i \in 1..Len(@) : @[i] = token.text
                       THEN @ ELSE Append(@, token.text),
              !.expr = Append(@, ExpressionVariable(token.text)),
              !.expect_op = TRUE]

\* which branch of the if/elif chain of core.py 794-967 takes the token
Branch(c, token) ==
    IF token.kind = "OPEN" THEN "OPEN"
    ELSE IF token.kind = "CLOSE" THEN "CLOSE"
    ELSE IF c.expect_op /\ token.text = <<",">> THEN "SEP"
    ELSE IF c.expect_op /\ token.text \in c.keys.ops THEN "OP"
    ELSE IF ~c.expect_op /\ token.kind # "VALUE" /\ token.text \in c.keys.unary_ops
    THEN "UNARY"
    ELSE IF ~c.expect_op /\ token.kind # "VALUE" /\ token.text \in c.keys.functions
    THEN "FUNC"
    ELSE IF ~c.expect_op /\ token.kind = "NAME" THEN "NAME"
    ELSE IF ~c.expect_op /\ token.kind = "VALUE" THEN "VALUE"
    ELSE "UNEXPECTED"

\* core.py 969: the token handled becomes the previous token
SetPrev(c, token) == IF c.status # "run" THEN c ELSE [c EXCEPT !.prev_token = token]

\* the branch b of the if/elif chain of core.py 794-967
HandleBranch(c, token, b) ==
    CASE b = "OPEN" -> Open(c, token)
      [] b = "CLOSE" -> Close(c)
      [] b = "SEP" -> Separator(c)
      [] b = "OP" -> Operator(c, token)
      [] b = "UNARY" ->
           [c EXCEPT !.stack = Append(@, token), !.expect_op = FALSE]
      [] b = "FUNC" ->
           [c EXCEPT !.stack = Append(@, token),
                     !.arg_count = Append(@, 1), !.expect_op = FALSE]
      [] b = "NAME" -> Name(c, token)
      [] b = "VALUE" ->
           [c EXCEPT !.expr = Append(@, ExpressionValue(token.value)),
                     !.expect_op = TRUE]
      \* the message formats the token tuple with {0:s}: TypeError
      [] OTHER -> Raise(c, "TypeError", "unexpected")

\* the body of the while loop for one token (core.py 792-969)
Handle(c, token) == SetPrev(HandleBranch(c, token, Branch(c, token)), token)

\* core.py 974-984: emit the rest of the stack down to a "("; op has been
\* popped and fs is its registry entry
RECURSIVE EndLoop(_, _)
RECURSIVE EndEmit(_, _, _)
EndEmit(c, op, fs) ==
    IF fs.err # "" THEN Raise(c, fs.err, "getfunction")
    ELSE IF Len(c.stack) > 0
    THEN EndLoop([c EXCEPT !.expr = Append(@, Emit(fs.fn, op)), !.stack = Pop(@)],
                 Top(c.stack))
    ELSE [c EXCEPT !.expr = Append(@, Emit(fs.fn, op))]

EndLoop(c, op) ==
    IF op.text = <<"(">> THEN c ELSE EndEmit(c, op, getfunction(op))

\* core.py 986-987
Finish(c) ==
    IF c.status # "run" THEN c
    ELSE IF Len(c.stack) > 0 THEN Raise(c, "SyntaxError", "too_few_close")
    ELSE [c EXCEPT !.status = "ok"]

\* core.py 971-987: after the last token
Collapse(c) ==
    IF Len(c.stack) > 0
    THEN Finish(EndLoop([c EXCEPT !.stack = Pop(@)], Top(c.stack)))
    ELSE [c EXCEPT !.status = "ok"]

\* core.py 791-792, 971: the loop ends with the text, an unmatched text is
\* a SyntaxError, a token goes through the loop body
Dispatch(c, n) ==
    IF n.status = "end" THEN Collapse(c)
    ELSE IF n.status = "SyntaxError" THEN Raise(c, "SyntaxError", "scan")
    ELSE Handle([c EXCEPT !.expression = n.rest], n.tok)

\* one iteration of __compile: scan a token and handle it, or finish
Step(c) ==
    Dispatch(c, scan(c.expression, c.expect_op, c.keys.ops, c.keys.functions,
                     c.keys.unary_ops))

\* Expression.__compile run to its end
RECURSIVE Run__compile(_)
Run__compile(c) == IF c.status # "run" THEN c ELSE Run__compile(Step(c))

compile(text, argorder) == Run__compile(CompileInit(text, argorder))

(***************************************************************************)
(* The canonical rendering: ExpressionFunction.toRepr and                  *)
(* Expression.__repr__ (core.py 130-137, 477-499).                         *)
(***************************************************************************)
RECURSIVE Join(_, _)
Join(texts, sep) ==
    IF texts = <<>> THEN <<>>
    ELSE IF Len(texts) = 1 THEN texts[1]
    ELSE texts[1] \o sep \o Join(Tail(texts), sep)

\* str.format: the template with its slots replaced by the parameters
RECURSIVE Format(_, _)
Format(form, params) ==
    IF form = <<>> THEN <<>>
    ELSE (IF Head(form).slot < 0 THEN <<Head(form).ch>>
          ELSE params[Head(form).slot + 1]) \o Format(Tail(form), params)

MaxSlot(form) ==
    IF form = <<>> THEN -1
    ELSE LET S == {form[i].slot : i \in 1..Len(form)}
         IN  CHOOSE m \in S : \A o \in S : o <= m

\* one instruction applied to the stack of rendered fragments
toRepr(t, args) ==
    IF t.kind = "Value"
    THEN [status |-> "ok", args |-> Append(args, ValueToRepr(t.value))]
    ELSE IF t.kind = "Variable"
    THEN [status |-> "ok", args |-> Append(args, t.name)]
    ELSE IF t.nargs.type # "int" THEN [status |-> "TypeError", args |-> args]
    ELSE IF Len(args) < t.nargs.n THEN [status |-> "IndexError", args |-> args]
    ELSE LET n == t.nargs.n
             params == SubSeq(args, Len(args) - n + 1, Len(args))
             rest == Take(args, Len(args) - n)
             fargs == IF t.isfunc THEN <<Join(params, <<",">>)>> ELSE params
         IN  IF MaxSlot(t.form) >= Len(fargs)
             THEN [status |-> "IndexError", args |-> rest]
             ELSE [status |-> "ok", args |-> Append(rest, Format(t.form, fargs))]

RECURSIVE ReprWalk(_, _)
ReprWalk(expr, args) ==
    IF expr = <<>> THEN [status |-> "ok", args |-> args]
    ELSE LET r == toRepr(Head(expr), args)
         IN  IF r.status # "ok" THEN r ELSE ReprWalk(Tail(expr), r.args)

\* core.py 496-499: one fragment is returned as it is, several as the str()
\* of their list
Rendered(r) ==
    IF r.status # "ok" THEN [status |-> r.status, text |-> <<>>]
    ELSE IF Len(r.args) > 1
    THEN [status |-> "ok",
          text |-> <<"[">> \o Join(r.args, <<",", " ">>) \o <<"]">>]
    ELSE [status |-> "ok", text |-> r.args[1]]

\* Expression.__repr__
repr(expr) ==
    IF Len(expr) = 0 THEN [status |-> "ok", text |-> <<>>]
    ELSE Rendered(ReprWalk(expr, <<>>))

\* ExpressionVariable.toStr, ExpressionValue.toStr and
\* ExpressionFunction.toStr: one instruction applied to the stack of
\* displayed fragments
toStr(t, args) ==
    IF t.kind = "Value"
    THEN [status |-> "ok", args |-> Append(args, ValueToStr(t.value))]
    ELSE IF t.kind = "Variable"
    THEN [status |-> "ok", args |-> Append(args, t.name)]
    ELSE IF t.nargs.type # "int" THEN [status |-> "TypeError", args |-> args]
    ELSE IF Len(args) < t.nargs.n THEN [status |-> "IndexError", args |-> args]
    ELSE LET n == t.nargs.n
             params == SubSeq(args, Len(args) - n + 1, Len(args))
             rest == Take(args, Len(args) - n)
             fargs == IF t.isfunc THEN <<Join(params, <<",">>)>> ELSE params
         IN  IF MaxSlot(t.display) >= Len(fargs)
             THEN [status |-> "IndexError", args |-> rest]
             ELSE [status |-> "ok", args |-> Append(rest, Format(t.display, fargs))]

RECURSIVE StrWalk(_, _)
StrWalk(expr, args) ==
    IF expr = <<>> THEN [status |-> "ok", args |-> args]
    ELSE LET r == toStr(Head(expr), args)
         IN  IF r.status # "ok" THEN r ELSE StrWalk(Tail(expr), r.args)

\* core.py 472-475: one fragment is returned as it is; several are
\* returned as a list, which str() refuses with TypeError
Displayed(r) ==
    IF r.status # "ok" THEN [status |-> r.status, text |-> <<>>]
    ELSE IF Len(r.args) > 1 THEN [status |-> "TypeError", text |-> <<>>]
    ELSE [status |-> "ok", text |-> r.args[1]]

\* Expression.__str__, as str(fn) calls it
str(expr) ==
    IF Len(expr) = 0 THEN [status |-> "ok", text |-> <<>>]
    ELSE Displayed(StrWalk(expr, <<>>))

(***************************************************************************)
(* Dictionaries.  A preset map (self.__vars) is a dict in insertion order: *)
(* a sequence of [k, v] entries with distinct keys.  An environment        *)
(* (self.variables, constants, kwargs) is a function from names to values. *)
(***************************************************************************)
Keys(d) == {d[i].k : i \in 1..Len(d)}

Get(d, k) == d[CHOOSE i \in 1..Len(d) : d[i].k = k].v

\* d[k] = v
Set(d, k, v) ==
    IF k \in Keys(d) THEN [i \in 1..Len(d) |-> IF d[i].k = k THEN [k |-> k, v |-> v] ELSE d[i]]
    ELSE Append(d, [k |-> k, v |-> v])

\* del d[k]
Del(d, k) == SelectSeq(d, LAMBDA e : e.k # k)

AsEnv(d) == [k \in Keys(d) |-> Get(d, k)]

EmptyEnv == [k \in {} |-> Num(0, 0)]

\* dict.update: the entries of e override those of d
Update(d, e) == e @@ d

(***************************************************************************)
(* The registered callables, over numbers with integral parts.             *)
(***************************************************************************)
NumOf(v) == Num(v.re, v.im)

Add(a, b) == Num(a.re + b.re, a.im + b.im)

Sub(a, b) == Num(a.re - b.re, a.im - b.im)

Mul(a, b) == Num(a.re * b.re - a.im * b.im, a.re * b.im + a.im * b.re)

RECURSIVE Sum(_)
Sum(params) ==
    IF params = <<>> THEN Num(0, 0)
    ELSE Add(Sum(Take(params, Len(params) - 1)), params[Len(params)])

RECURSIVE Prod(_)
Prod(params) ==
    IF params = <<>> THEN Num(1, 0)
    ELSE Mul(Prod(Take(params, Len(params) - 1)), params[Len(params)])

\* self.function(*params): a callable given a wrong number of arguments
\* raises TypeError
Apply(func, params) ==
    CASE func = "add" /\ Len(params) = 2 -> [status |-> "ok", value |-> Add(params[1], params[2])]
      [] func = "sub" /\ Len(params) = 2 -> [status |-> "ok", value |-> Sub(params[1], params[2])]
      [] func = "mul" /\ Len(params) = 2 -> [status |-> "ok", value |-> Mul(params[1], params[2])]
      [] func = "neg" /\ Len(params) = 1 -> [status |-> "ok", value |-> Sub(Num(0, 0), params[1])]
      [] func = "sum" -> [status |-> "ok", value |-> Sum(params)]
      [] func = "prod" -> [status |-> "ok", value |-> Prod(params)]
      [] OTHER -> [status |-> "TypeError", value |-> Num(0, 0)]

\* the __call__ of one instruction on the value stack (core.py 102-103,
\* 139-143, 166-170)
Exec(t, args, variables) ==
    IF t.kind = "Value"
    THEN [status |-> "ok", args |-> Append(args, NumOf(t.value))]
    ELSE IF t.kind = "Variable"
    THEN [status |-> "ok",
          args |-> Append(args, IF t.name \in DOMAIN variables
                                THEN variables[t.name] ELSE Num(0, 0))]
    ELSE IF t.nargs.type # "int" THEN [status |-> "TypeError", args |-> args]
    ELSE IF Len(args) < t.nargs.n THEN [status |-> "IndexError", args |-> args]
    ELSE LET n == t.nargs.n
             r == Apply(t.func, SubSeq(args, Len(args) - n + 1, Len(args)))
         IN  IF r.status # "ok" THEN [status |-> r.status, args |-> args]
             ELSE [status |-> "ok", args |-> Append(Take(args, Len(args) - n), r.value)]

\* core.py 336-341
RECURSIVE ExecWalk(_, _, _)
ExecWalk(expr, args, variables) ==
    IF expr = <<>> THEN [status |-> "ok", args |-> args]
    ELSE LET r == Exec(Head(expr), args, variables)
         IN  IF r.status # "ok" THEN r ELSE ExecWalk(Tail(expr), r.args, variables)

(***************************************************************************)
(* Expression objects: the fields __expr, __args, __vars, __argsused and   *)
(* variables.                                                              *)
(***************************************************************************)
Object(expr, args, vars, argsused) ==
    [expr |-> expr, args |-> args, vars |-> vars, argsused |-> argsused,
     variables |-> EmptyEnv]

NoObject == Object(<<>>, <<>>, <<>>, {})

\* core.py 225-230: the fields of the object after __compile
Constructed(c) ==
    IF c.status = "ok"
    THEN [status |-> "ok", obj |-> Object(c.expr, c.args, <<>>, c.argsused)]
    ELSE [status |-> c.status, obj |-> NoObject]

\* Expression.__init__ from a string (core.py 222-232)
new(text, argorder) == Constructed(compile(text, argorder))

\* Expression.__init__ from an Expression (core.py 216-221)
clone(expression) ==
    Object(expression.expr, expression.args, expression.vars, expression.argsused)

\* Expression.__setitem__
setitem(self, name, value) ==
    IF name \in self.argsused
    THEN [status |-> "ok", self |-> [self EXCEPT !.vars = Set(@, name, value)]]
    ELSE [status |-> "KeyError", self |-> self]

\* Expression.__delitem__
delitem(self, name) ==
    IF name \in self.argsused
    THEN [status |-> "ok", self |-> [self EXCEPT !.vars = Del(@, name)]]
    ELSE [status |-> "KeyError", self |-> self]

InList(list, v) == \E i \in 1..Len(list) : list[i] = v

\* core.py 306-318: the positional arguments, bound in order
RECURSIVE BindPositional(_, _, _, _, _)
BindPositional(variables, names, args, kwargs, i) ==
    IF i > Len(args) THEN [status |-> "ok", variables |-> variables]
    ELSE IF i <= Len(names)
    THEN IF names[i] \in DOMAIN kwargs
         THEN [status |-> "TypeError", variables |-> variables]
         ELSE BindPositional(Update(variables, names[i] :> args[i]),
                             names, args, kwargs, i + 1)
    ELSE BindPositional(variables, names, args, kwargs, i + 1)

\* core.py 295
TooMany(self, args) == Len(args) > Len(self.args)

\* the TypeError of __call__: its message formats repr(self), rendered as
\* r, and an error of that rendering escapes in place of the TypeError
\* (core.py 296-304, 309-317, 325-335)
Failed(self, why, r) ==
    [status |-> IF r.status = "ok" THEN "TypeError" ELSE r.status,
     why |-> why, value |-> <<>>, self |-> self]

CallError(self, why) == Failed(self, why, repr(self.expr))

\* Expression.__call__ (core.py 290-345).  why: "none" (empty program),
\* "too_many", "multiple", "undefined", or "walk".
call(self, args, kwargs) ==
    IF Len(self.expr) = 0
    THEN [status |-> "None", why |-> "none", value |-> <<>>, self |-> self]
    ELSE LET v1 == Update(Update(EmptyEnv, constants), AsEnv(self.vars))
         IN  IF TooMany(self, args)
             THEN CallError([self EXCEPT !.variables = v1], "too_many")
             ELSE LET b == BindPositional(v1, self.args, args, kwargs, 1)
                      v3 == Update(b.variables, kwargs)
                      s3 == [self EXCEPT !.variables = v3]
                  IN  IF b.status # "ok"
                      THEN CallError([self EXCEPT !.variables = b.variables], "multiple")
                      ELSE IF \E arg \in self.argsused : arg \notin DOMAIN v3
                      THEN CallError(s3, "undefined")
                      ELSE LET r == ExecWalk(self.expr, <<>>, v3)
                           IN  [status |-> r.status, why |-> "walk",
                                value |-> IF r.status = "ok" THEN r.args ELSE <<>>,
                                self |-> s3]

(***************************************************************************)
(* The expression algebra (core.py 524-563, 608-647).  The other operand   *)
(* is a number, a string or an Expression.                                 *)
(***************************************************************************)
NumOperand(n) == [kind |-> "num", num |-> n, text |-> <<>>, obj |-> NoObject]

StrOperand(text) == [kind |-> "str", num |-> 0, text |-> text, obj |-> NoObject]

ObjOperand(obj) == [kind |-> "obj", num |-> 0, text |-> <<>>, obj |-> obj]

\* the merge the other way round: the names of the other operand first
MergeArgs_OtherFirst(args, others) ==
    others \o SelectSeq(args, LAMBDA v : ~InList(others, v))

\* core.py 545-547
RECURSIVE MergeArgs(_, _)
MergeArgs(args, others) ==
    IF others = <<>> THEN args
    ELSE MergeArgs(IF InList(args, Head(others)) THEN args
                   ELSE Append(args, Head(others)), Tail(others))

\* the merge without its check: the preset of the left operand is kept
MergeVars_KeepFirst(vars, items) ==
    [status |-> "ok",
     vars |-> vars \o SelectSeq(items, LAMBDA e : e.k \notin Keys(vars))]

\* core.py 548-556: stops at the first name preset to two differing values
RECURSIVE MergeVars(_, _)
MergeVars(vars, items) ==
    IF items = <<>> THEN [status |-> "ok", vars |-> vars]
    ELSE LET e == Head(items)
         IN  IF e.k \notin Keys(vars) THEN MergeVars(Append(vars, e), Tail(items))
             ELSE IF e.v # Get(vars, e.k)
             THEN [status |-> "RuntimeError", vars |-> vars]
             ELSE MergeVars(vars, Tail(items))

\* core.py 557-562: the trailing binary Call
AppendCall(obj, op) ==
    [obj EXCEPT !.expr = Append(@, ExpressionFunction(
         ops[op].func, ops[op].args, ops[op].str, ops[op].latex, op, FALSE))]

\* core.py 543-556: the instructions and metadata of other merged into obj
Merge(obj, other) ==
    LET m == MergeVars(obj.vars, other.vars)
    IN  [status |-> m.status,
         obj |-> [obj EXCEPT !.expr = @ \o other.expr,
                             !.argsused = @ \cup other.argsused,
                             !.args = MergeArgs(@, other.args),
                             !.vars = m.vars]]

\* core.py 557-562: the trailing Call, when the merge m has not failed
WithCall(m, op) ==
    IF m.status # "ok" THEN m ELSE [status |-> "ok", obj |-> AppendCall(m.obj, op)]

\* core.py 534-562: made is the outcome of constructing the other operand
ExtendWith(obj, made, op) ==
    IF made.status # "ok" THEN [status |-> "SyntaxError", obj |-> obj]
    ELSE WithCall(Merge(obj, made.obj), op)

\* core.py 531-562 and 615-646: the body shared by __combine and
\* __icombine, applied to obj
Extend(obj, other, op) ==
    IF other.kind = "num"
    THEN [status |-> "ok",
          obj |-> AppendCall([obj EXCEPT !.expr = Append(@, ExpressionValue(IntVal(other.num)))], op)]
    ELSE ExtendWith(obj,
                    IF other.kind = "str" THEN new(other.text, <<>>)
                    ELSE [status |-> "ok", obj |-> other.obj],
                    op)

\* core.py 563: the clone is returned, self is as it was
Returned(self, r) ==
    [status |-> r.status, obj |-> IF r.status = "ok" THEN r.obj ELSE NoObject,
     self |-> self]

\* Expression.__combine: the result is built on a clone of self
combine(self, other, op) ==
    IF op \notin DOMAIN ops
    THEN [status |-> "NotImplemented", obj |-> NoObject, self |-> self]
    ELSE Returned(self, Extend(clone(self), other, op))

\* core.py 647: self is returned, changed as far as the body went
ReturnedSelf(r) ==
    [status |-> r.status, obj |-> IF r.status = "ok" THEN r.obj ELSE NoObject,
     self |-> r.obj]

\* Expression.__icombine: the result is self, changed in place
icombine(self, other, op) ==
    IF op \notin DOMAIN ops
    THEN [status |-> "NotImplemented", obj |-> NoObject, self |-> self]
    ELSE ReturnedSelf(Extend(self, other, op))

\* core.py 572-573: the number is inserted in front of the clone's
\* instructions, then the Call is appended (core.py 600-605)
PrependValue(obj, num, op) ==
    AppendCall([obj EXCEPT !.expr = <<ExpressionValue(IntVal(num))>> \o @], op)

\* core.py 575-585: a string that does not compile is a SyntaxError; for
\* one that does, and for an Expression, line 585 evaluates
\* other.__argsused | self.__expr, a set | list, which raises TypeError
ReflectedMerge(made) ==
    IF made.status # "ok" THEN "SyntaxError" ELSE "TypeError"

\* Expression.__rcombine: other op self, built on a clone of self
rcombine(self, other, op) ==
    IF op \notin DOMAIN ops
    THEN [status |-> "NotImplemented", obj |-> NoObject, self |-> self]
    ELSE IF other.kind = "num"
    THEN [status |-> "ok", obj |-> PrependValue(clone(self), other.num, op),
          self |-> self]
    ELSE [status |-> ReflectedMerge(IF other.kind = "str" THEN new(other.text, <<>>)
                                    ELSE [status |-> "ok", obj |-> other.obj]),
          obj |-> NoObject, self |-> self]

\* Expression.__apply: a clone of self with one trailing unary Call
apply(self, op) ==
    [status |-> "ok",
     obj |-> [clone(self) EXCEPT !.expr = Append(@, ExpressionFunction(
                 unary_ops[op].func, ArgsInt(1), unary_ops[op].str,
                 unary_ops[op].latex, op, FALSE))],
     self |-> self]

\* core.py 659: 1 not in fn["args"] or "*" not in fn["args"].  An int has
\* no "in" and 1 in "+" is not a string test: both raise TypeError; a list
\* passes only when it holds both 1 and "*"
AcceptsOne(fnargs) ==
    IF fnargs.type \in {"int", "plus"} THEN "TypeError"
    ELSE IF fnargs.type = "star" /\ 1 \in fnargs.set THEN "ok"
    ELSE "RuntimeError"

\* core.py 663-667: a clone of self with one trailing Call of one argument
Applied(self, fn, op) ==
    [clone(self) EXCEPT !.expr = Append(@, ExpressionFunction(
        fn.func, ArgsInt(1), fn.str, fn.latex, op, FALSE))]

\* Expression.__applycall, with fns the registry of functions at the call
applycall(self, op, fns) ==
    IF op \notin DOMAIN fns
    THEN [status |-> "KeyError", obj |-> NoObject, self |-> self]
    ELSE IF AcceptsOne(fns[op].args) # "ok"
    THEN [status |-> AcceptsOne(fns[op].args), obj |-> NoObject, self |-> self]
    ELSE [status |-> "ok", obj |-> Applied(self, fns[op], op), self |-> self]

(***************************************************************************)
(* State.                                                                  *)
(*   input     the text passed to the constructor                          *)
(*   compiler  the run of __compile on it                                  *)
(*   left, right  two Expression objects                                   *)
(*   result    the outcome of the last operation on them                   *)
(***************************************************************************)
VARIABLES input, compiler, left, right, result

vars == <<input, compiler, left, right, result>>

NoResult == [op |-> "none"]

Idle == [CompileInit(<<>>, <<>>) EXCEPT !.status = "idle"]

(***************************************************************************)
(* Texts the compiler is run on.                                           *)
(***************************************************************************)
MaxLen == 4

MaxArgs == 3

Alphabet == {"(", ")", ",", "+", "-", "1", "x", "f", " "}

Texts(n) == UNION {[1..k -> Alphabet] : k \in 0..n}

RECURSIVE Repeat(_, _)
Repeat(text, n) == IF n = 0 THEN <<>> ELSE <<text>> \o Repeat(text, n - 1)

\* f(1,1), g(), h(1,1,1), ...: each function called with 0..MaxArgs arguments
CallTexts ==
    {id \o <<"(">> \o Join(Repeat(<<"1">>, n), <<",">>) \o <<")">> :
        id \in DOMAIN functions, n \in 0..MaxArgs}

\* "2(x+1)", "(x)(y)", "1+2*3", "h(x,-y)", "2*3+1"
Examples ==
    {<<"2", "(", "x", "+", "1", ")">>, <<"(", "x", ")", "(", "y", ")">>,
     <<"1", "+", "2", "*", "3">>, <<"h", "(", "x", ",", "-", "y", ")">>,
     <<"2", "*", "3", "+", "1">>}

Inputs == Texts(MaxLen) \cup CallTexts \cup Examples

ArgOrders == {<<>>, <<<<"y">>, <<"x">>>>}

(***************************************************************************)
(* Spec: Expression(text, argorder), one token of __compile at a time.     *)
(***************************************************************************)
Init ==
    /\ input \in Inputs
    /\ \E argorder \in ArgOrders : compiler = CompileInit(input, argorder)
    /\ left = NoObject
    /\ right = NoObject
    /\ result = NoResult

Running == compiler.status = "run"

Scanned ==
    scan(compiler.expression, compiler.expect_op, compiler.keys.ops,
         compiler.keys.functions, compiler.keys.unary_ops)

\* the branch of the loop body the scanned token n takes
BranchOf(c, n) == IF n.status = "token" THEN Branch(c, n.tok) ELSE n.status

Taken == BranchOf(compiler, Scanned)

\* core.py 794-804
OpenBlock ==
    /\ Running
    /\ Taken = "OPEN"
    /\ compiler' = Step(compiler)
    /\ UNCHANGED <<input, left, right, result>>

\* core.py 807-870
CloseBlock ==
    /\ Running
    /\ Taken = "CLOSE"
    /\ compiler' = Step(compiler)
    /\ UNCHANGED <<input, left, right, result>>

\* core.py 873-885
SeparatorToken ==
    /\ Running
    /\ Taken = "SEP"
    /\ compiler' = Step(compiler)
    /\ UNCHANGED <<input, left, right, result>>

\* core.py 888-932
OperatorToken ==
    /\ Running
    /\ Taken = "OP"
    /\ compiler' = Step(compiler)
    /\ UNCHANGED <<input, left, right, result>>

\* core.py 935-938
UnaryToken ==
    /\ Running
    /\ Taken = "UNARY"
    /\ compiler' = Step(compiler)
    /\ UNCHANGED <<input, left, right, result>>

\* core.py 941-944
FunctionToken ==
    /\ Running
    /\ Taken = "FUNC"
    /\ compiler' = Step(compiler)
    /\ UNCHANGED <<input, left, right, result>>

\* core.py 947-954
NameToken ==
    /\ Running
    /\ Taken = "NAME"
    /\ compiler' = Step(compiler)
    /\ UNCHANGED <<input, left, right, result>>

\* core.py 957-959
NumericValue ==
    /\ Running
    /\ Taken = "VALUE"
    /\ compiler' = Step(compiler)
    /\ UNCHANGED <<input, left, right, result>>

\* core.py 441-443: no rule matches the remaining text
NoMatchingToken ==
    /\ Running
    /\ Taken = "SyntaxError"
    /\ compiler' = Step(compiler)
    /\ UNCHANGED <<input, left, right, result>>

\* core.py 971-987
EndOfInput ==
    /\ Running
    /\ Taken = "end"
    /\ compiler' = Step(compiler)
    /\ UNCHANGED <<input, left, right, result>>

Next ==
    \/ OpenBlock
    \/ CloseBlock
    \/ SeparatorToken
    \/ OperatorToken
    \/ UnaryToken
    \/ FunctionToken
    \/ NameToken
    \/ NumericValue
    \/ NoMatchingToken
    \/ EndOfInput

Spec == Init /\ [][Next]_vars

\* the scanner only returns tokens the loop body has a branch for, so the
\* final else of core.py 961-967 is never taken with this registry
UnexpectedTokenUnreachable == Running => Taken # "UNEXPECTED"

(***************************************************************************)
(* Properties of the compiler.                                             *)
(***************************************************************************)
Count(text, ch) == Cardinality({i \in 1..Len(text) : text[i] = ch})

\* the number of "(" of the text that no ")" closes
UnmatchedOpens(text) == Count(text, "(") - Count(text, ")")

\* C1: compile returns a Program or fails with SyntaxError; no index, key,
\* type or value error escapes the scanner or the compiler.
C1_OnlySyntaxError == compiler.status \in {"run", "ok", "SyntaxError"}

\* C2: a text that ends with an opening parenthesis still unmatched never
\* compiles to a Program (it fails with "too few closing parentheses").
C2_UnmatchedOpenFails == compiler.status = "ok" => UnmatchedOpens(input) <= 0

\* the argument counts a declared arity accepts: a fixed integer k accepts
\* k, a list its members, "+" one or more
Accepts(declared, n) ==
    CASE declared.type = "int" -> n = declared.n
      [] declared.type = "list" -> n \in declared.set
      [] declared.type = "plus" -> n >= 1

\* C3: a closed function call is emitted as a named Call of arity n only if
\* the declared arity accepts n, and every rejected count is a SyntaxError.
C3_ArityValidated ==
    /\ \A i \in 1..Len(compiler.expr) :
          compiler.expr[i].isfunc =>
             Accepts(functions[compiler.expr[i].id].args, compiler.expr[i].nargs.n)
    /\ compiler.why = "nargs" => compiler.status = "SyntaxError"

\* C4: an OPEN token right after a VALUE or a CLOSE token fails with
\* SyntaxError at that token: implicit multiplication is never inferred.
C4_NoImplicitMultiplication ==
    [][(/\ Running
        /\ Scanned.status = "token"
        /\ Scanned.tok.kind = "OPEN"
        /\ compiler.prev_token.kind \in {"CLOSE", "VALUE"})
       => (compiler'.status = "SyntaxError" /\ compiler'.why = "implicit_mul")]_vars

\* "2(x+1)" has failed at its "("
C4_Witness ==
    /\ input = <<"2", "(", "x", "+", "1", ")">>
    /\ compiler.status = "SyntaxError"
    /\ compiler.why = "implicit_mul"
    /\ compiler.prev_token.kind = "VALUE"

(***************************************************************************)
(* Evaluation: an Expression is constructed from a text, its presets are   *)
(* set and deleted, and it is called with positional and named arguments.  *)
(***************************************************************************)
MaxPositional == 2

\* "", "x-y", "z-x" (z is a constant) and "x+", which compiles to a program
\* that cannot be rendered
CallTexts0 == {<<>>, <<"x", "-", "y">>, <<"z", "-", "x">>, <<"x", "+">>}

CallArgOrders == {<<>>, <<<<"y">>, <<"x">>>>}

Names == {<<"x">>, <<"z">>}

PresetValues == {Num(1, 0)}

PositionalValues == {Num(2, 0), Num(4, 0)}

NamedValues == {Num(3, 0)}

Positionals == UNION {[1..n -> PositionalValues] : n \in 0..MaxPositional}

Nameds == UNION {[S -> NamedValues] : S \in SUBSET Names}

\* the Expression objects constructed from the texts
Constructions ==
    {[text |-> text, made |-> new(text, argorder)] :
        text \in CallTexts0, argorder \in CallArgOrders}

InitCall ==
    /\ \E made \in {m \in Constructions : m.made.status = "ok"} :
          /\ input = made.text
          /\ left = made.made.obj
    /\ compiler = Idle
    /\ right = NoObject
    /\ result = NoResult

\* fn[name] = value
SetItem ==
    \E name \in Names, value \in PresetValues :
       LET r == setitem(left, name, value)
       IN  /\ left' = r.self
           /\ result' = [op |-> "setitem", status |-> r.status]
           /\ UNCHANGED <<input, compiler, right>>

\* del fn[name]
DelItem ==
    \E name \in Names :
       LET r == delitem(left, name)
       IN  /\ left' = r.self
           /\ result' = [op |-> "delitem", status |-> r.status]
           /\ UNCHANGED <<input, compiler, right>>

\* fn(*args, **kwargs)
Call ==
    \E args \in Positionals, kwargs \in Nameds :
       LET r == call(left, args, kwargs)
       IN  /\ left' = r.self
           /\ result' = [op |-> "call", self |-> left, args |-> args,
                         kwargs |-> kwargs, status |-> r.status,
                         why |-> r.why, value |-> r.value]
           /\ UNCHANGED <<input, compiler, right>>

NextCall == SetItem \/ DelItem \/ Call

SpecCall == InitCall /\ [][NextCall]_vars

Called == result.op = "call"

\* C5: a call with more positional arguments than the argument-order list
\* has names fails with TypeError and returns no value, whatever the number
\* of instructions of the program.
C5_TooManyPositionalFails ==
    (Called /\ Len(result.args) > Len(result.self.args))
       => (result.status = "TypeError" /\ result.value = <<>>)

\* the names the positional arguments of the call are bound to
Slots == {result.self.args[i] : i \in 1..Len(result.args)}

\* the names bound by the constants, the presets and the arguments
Bound == DOMAIN constants \cup Keys(result.self.vars) \cup Slots \cup DOMAIN result.kwargs

\* named over positional over preset over constant
Binding(name) ==
    IF name \in DOMAIN result.kwargs THEN result.kwargs[name]
    ELSE IF name \in Slots
    THEN result.args[CHOOSE i \in 1..Len(result.args) :
                        /\ result.self.args[i] = name
                        /\ \A j \in i + 1..Len(result.args) : result.self.args[j] # name]
    ELSE IF name \in Keys(result.self.vars) THEN Get(result.self.vars, name)
    ELSE constants[name]

\* C6: a call whose positional slot is also passed by name fails with
\* TypeError, a call that leaves a free variable unbound fails with
\* TypeError, and in any other call every variable instruction evaluates to
\* the binding of its name of the highest precedence.
C6_BindingPrecedence ==
    (Called /\ Len(result.args) <= Len(result.self.args)) =>
       IF Slots \cap DOMAIN result.kwargs # {} THEN result.status = "TypeError"
       ELSE IF ~(result.self.argsused \subseteq Bound) THEN result.status = "TypeError"
       ELSE \A i \in 1..Len(result.self.expr) :
               result.self.expr[i].kind = "Variable" =>
                  Exec(result.self.expr[i], <<>>, left.variables).args
                     = <<Binding(result.self.expr[i].name)>>

(***************************************************************************)
(* The canonical round trip: a well-formed text is compiled, the program   *)
(* is rendered with repr, the rendering is compiled again, and both        *)
(* programs are evaluated on the same bindings.                            *)
(***************************************************************************)
\* a number, two variables and a complex literal
Atoms == {<<"1">>, <<"x">>, <<"y">>, <<"0", "+", "2", "j">>}

BinaryTexts == {a \o o \o b : a \in Atoms, o \in DOMAIN ops, b \in Atoms}

UnaryTexts == {u \o a : u \in DOMAIN unary_ops, a \in Atoms}

\* a o b o c and a o (b o c)
ChainTexts ==
    {e \o o \o a : e \in BinaryTexts, o \in DOMAIN ops, a \in Atoms}
    \cup {a \o o \o <<"(">> \o e \o <<")">> :
             a \in Atoms, o \in DOMAIN ops, e \in BinaryTexts}

\* f(a,b), g(a), g(a,b), h(a), h(a,b)
FunctionTexts ==
    {id \o <<"(">> \o a \o <<")">> : id \in {<<"g">>, <<"h">>}, a \in Atoms}
    \cup {id \o <<"(">> \o a \o <<",">> \o b \o <<")">> :
             id \in DOMAIN functions, a \in Atoms, b \in Atoms}

WellFormed == Atoms \cup BinaryTexts \cup UnaryTexts \cup ChainTexts \cup FunctionTexts

\* the bindings of the free variables
Bindings == [{<<"x">>, <<"y">>} -> {Num(1, 0), Num(2, 0)}]

NoOutcome == [status |-> "none", value |-> <<>>]

Outcome(r) == [status |-> r.status, value |-> r.value]

Stage(op, status, text, first, second) ==
    [op |-> op, status |-> status, text |-> text, first |-> first, second |-> second]

InitRoundTrip ==
    /\ input \in WellFormed
    /\ compiler = Idle
    /\ left = NoObject
    /\ right = NoObject
    /\ result = Stage("text", "ok", <<>>, NoOutcome, NoOutcome)

\* fn = Expression(s)
Construct ==
    /\ result.op = "text"
    /\ \E made \in {new(input, <<>>)} :
          /\ left' = made.obj
          /\ result' = Stage("construct", made.status, <<>>, NoOutcome, NoOutcome)
    /\ UNCHANGED <<input, compiler, right>>

\* repr(fn)
Render ==
    /\ result.op = "construct"
    /\ result.status = "ok"
    /\ \E r \in {repr(left.expr)} :
          result' = Stage("render", r.status, r.text, NoOutcome, NoOutcome)
    /\ UNCHANGED <<input, compiler, left, right>>

\* Expression(repr(fn))
Reconstruct ==
    /\ result.op = "render"
    /\ result.status = "ok"
    /\ \E made \in {new(result.text, <<>>)} :
          /\ right' = made.obj
          /\ result' = Stage("reconstruct", made.status, result.text,
                             NoOutcome, NoOutcome)
    /\ UNCHANGED <<input, compiler, left>>

\* fn(**binding) and Expression(repr(fn))(**binding)
Evaluate ==
    /\ result.op \in {"reconstruct", "evaluate"}
    /\ result.status = "ok"
    /\ \E binding \in Bindings :
          \E first \in {call(left, <<>>, binding)},
             second \in {call(right, <<>>, binding)} :
             /\ left' = first.self
             /\ right' = second.self
             /\ result' = Stage("evaluate", "ok", result.text,
                                Outcome(first), Outcome(second))
    /\ UNCHANGED <<input, compiler>>

NextRoundTrip == Construct \/ Render \/ Reconstruct \/ Evaluate

SpecRoundTrip == InitRoundTrip /\ [][NextRoundTrip]_vars

\* C7: a well-formed text compiles, its program renders, the rendering
\* compiles again, and both programs evaluate to the same result on every
\* binding of the free variables.
C7_CanonicalRoundTrip ==
    /\ result.op \in {"construct", "render", "reconstruct"} => result.status = "ok"
    /\ result.op = "evaluate" =>
          (result.first.status = "ok" /\ result.first = result.second)

(***************************************************************************)
(* The expression algebra: two Expression objects are constructed, their   *)
(* presets are set, and then the left one is composed with the right one,  *)
(* with a number or with a string, into a new object (fn + other) or in    *)
(* place (fn += other).                                                    *)
(***************************************************************************)
MaxInstr == 4

\* "x", "x-y"
AlgebraTexts == {<<"x">>, <<"x", "-", "y">>}

AlgebraArgOrders == {<<>>, <<<<"y">>, <<"x">>>>}

\* Expression("x"), Expression("x-y"), Expression("x-y", ["y", "x"])
AlgebraObjects ==
    {new(text, <<>>).obj : text \in AlgebraTexts}
    \cup {new(<<"x", "-", "y">>, argorder).obj : argorder \in AlgebraArgOrders}

\* x preset to 1 or to 2, y to 1
AlgebraPresets ==
    {[k |-> <<"x">>, v |-> Num(1, 0)], [k |-> <<"x">>, v |-> Num(2, 0)],
     [k |-> <<"y">>, v |-> Num(1, 0)]}

\* "+", "-" and an operator the registry does not have
AlgebraOps == {<<"+">>, <<"-">>, <<"^">>}

\* the number 1, the strings "y" and "1," (which does not compile)
OtherOperands ==
    {NumOperand(1), StrOperand(<<"y">>), StrOperand(<<"1", ",">>)}

\* the instructions the operand adds to the left one
Size(other) ==
    IF other.kind = "obj" THEN Len(other.obj.expr)
    ELSE IF other.kind = "str" THEN Len(other.text)
    ELSE 1

Composed(op, operator, self0, other, r) ==
    [op |-> op, operator |-> operator, self0 |-> self0, other |-> other,
     status |-> r.status, obj |-> r.obj]

InitAlgebra ==
    /\ input = <<>>
    /\ compiler = Idle
    /\ left \in AlgebraObjects
    /\ right \in AlgebraObjects
    /\ result = NoResult

\* left[name] = value
PresetLeft ==
    \E preset \in AlgebraPresets :
       /\ result = NoResult
       /\ setitem(left, preset.k, preset.v).status = "ok"
       /\ left' = setitem(left, preset.k, preset.v).self
       /\ result' = NoResult
       /\ UNCHANGED <<input, compiler, right>>

\* right[name] = value
PresetRight ==
    \E preset \in AlgebraPresets :
       /\ result = NoResult
       /\ setitem(right, preset.k, preset.v).status = "ok"
       /\ right' = setitem(right, preset.k, preset.v).self
       /\ result' = NoResult
       /\ UNCHANGED <<input, compiler, left>>

\* left + other, left - other, left ** other
Combine ==
    \E operator \in AlgebraOps, other \in OtherOperands \cup {ObjOperand(right)} :
       \E r \in {combine(left, other, operator)} :
          /\ left' = r.self
          /\ result' = Composed("combine", operator, left, other, r)
          /\ UNCHANGED <<input, compiler, right>>

\* left += other, left -= other, left **= other
ICombine ==
    \E operator \in AlgebraOps, other \in OtherOperands \cup {ObjOperand(right)} :
       /\ Len(left.expr) + Size(other) + 1 <= MaxInstr
       /\ \E r \in {icombine(left, other, operator)} :
             /\ left' = r.self
             /\ result' = Composed("icombine", operator, left, other, r)
             /\ UNCHANGED <<input, compiler, right>>

\* other + left, other - left, other ** left, for a number or a string
RCombine ==
    \E operator \in AlgebraOps, other \in OtherOperands :
       \E r \in {rcombine(left, other, operator)} :
          /\ left' = r.self
          /\ result' = Composed("rcombine", operator, left, other, r)
          /\ UNCHANGED <<input, compiler, right>>

\* -left
Negate ==
    \E r \in {apply(left, <<"-">>)} :
       /\ left' = r.self
       /\ result' = Composed("apply", <<"-">>, left, NumOperand(0), r)
       /\ UNCHANGED <<input, compiler, right>>

\* the id __abs__ passes to __applycall (core.py 766)
AbsId == <<"a", "b", "s">>

\* the ways abs is registered: util.addFn("abs", ..., num_args, ...)
\* with 1, [1], [1, 2], "+", [1, "*"]
AbsDeclarations ==
    {ArgsInt(1), ArgsList({1}), ArgsList({1, 2}), ArgsPlus, ArgsStar({1})}

\* the registry after util.addFn("abs", ...)
Registries ==
    {functions} \cup {(AbsId :> addFn(AbsId, decl, "abs")) @@ functions :
                         decl \in AbsDeclarations}

\* abs(left)
Absolute ==
    \E fns \in Registries :
       \E r \in {applycall(left, AbsId, fns)} :
          /\ left' = r.self
          /\ result' = [op |-> "applycall", operator |-> AbsId, self0 |-> left,
                        fns |-> fns, status |-> r.status, obj |-> r.obj]
          /\ UNCHANGED <<input, compiler, right>>

NextAlgebra ==
    \/ PresetLeft \/ PresetRight \/ Combine \/ ICombine
    \/ RCombine \/ Negate \/ Absolute

SpecAlgebra == InitAlgebra /\ [][NextAlgebra]_vars

Composition(op) ==
    /\ result.op = op
    /\ result.operator \in DOMAIN ops
    /\ result.other.kind = "obj"

\* the names of list that are not in names, in the order of list
Only(list, names) == SelectSeq(list, LAMBDA v : ~InList(names, v))

\* the binary Call of the operator op
BinaryCall(op) ==
    ExpressionFunction(ops[op].func, ops[op].args, ops[op].str, ops[op].latex,
                       op, FALSE)

\* distinct values for the positional arguments of fn: 3, 5, 7, ...
Positional(fn) == [i \in 1..Len(fn.args) |-> Num(2 * i + 1, 0)]

\* the same values, by name
Named(fn) ==
    [name \in {fn.args[i] : i \in 1..Len(fn.args)} |->
        Positional(fn)[CHOOSE i \in 1..Len(fn.args) : fn.args[i] = name]]

\* the value of the operand fn when the arguments of the composed program
\* are bound in the order of its argument list
OperandValue(fn) == call(fn, <<>>, Named(result.obj))

\* C8: fn + other returns a new program whose instructions are those of fn,
\* then those of other, then one binary Call; whose free variables are the
\* union of both; whose argument order is that of fn followed by the names
\* only other has, so that positional arguments bind in that order; fn and
\* other are left as they were.
C8_ComposeNew ==
    Composition("combine") =>
       /\ left = result.self0
       /\ right = result.other.obj
       /\ result.status = "ok" =>
             /\ result.obj.expr = result.self0.expr \o result.other.obj.expr
                                     \o <<BinaryCall(result.operator)>>
             /\ result.obj.argsused =
                   result.self0.argsused \cup result.other.obj.argsused
             /\ result.obj.args =
                   result.self0.args \o Only(result.other.obj.args, result.self0.args)
             /\ (OperandValue(result.self0).status = "ok"
                 /\ OperandValue(result.other.obj).status = "ok")
                   => call(result.obj, Positional(result.obj), EmptyEnv).value
                         = <<Apply(ops[result.operator].func,
                                   OperandValue(result.self0).value
                                      \o OperandValue(result.other.obj).value).value>>

\* Expression("x") - Expression("x-y", ["y", "x"]) takes x then y:
\* called with (3, 5) it is 3 - (3 - 5) = 5
C8_Witness ==
    /\ Composition("combine")
    /\ result.operator = <<"-">>
    /\ result.status = "ok"
    /\ result.self0.args = <<<<"x">>>>
    /\ result.other.obj.args = <<<<"y">>, <<"x">>>>
    /\ result.obj.args = <<<<"x">>, <<"y">>>>
    /\ Len(result.obj.expr) = 5
    /\ call(result.obj, <<Num(3, 0), Num(5, 0)>>, EmptyEnv).value = <<Num(5, 0)>>

\* a name preset on both sides to two differing values
Conflict(a, b) == \E k \in Keys(a) \cap Keys(b) : Get(a, k) # Get(b, k)

\* C9: a composition of two programs fails with RuntimeError exactly when
\* both preset one name to differing values; otherwise it succeeds and the
\* presets of the result are the union of both preset maps.
C9_PresetConflict ==
    (Composition("combine") \/ Composition("icombine")) =>
       IF Conflict(result.self0.vars, result.other.obj.vars)
       THEN result.status = "RuntimeError"
       ELSE /\ result.status = "ok"
            /\ AsEnv(result.obj.vars)
                  = AsEnv(result.self0.vars) @@ AsEnv(result.other.obj.vars)

\* x preset to 1 on the left and to 2 on the right
C9_Witness ==
    /\ Composition("combine")
    /\ <<"x">> \in Keys(result.self0.vars) \cap Keys(result.other.obj.vars)
    /\ Get(result.self0.vars, <<"x">>) # Get(result.other.obj.vars, <<"x">>)
    /\ result.status = "RuntimeError"

\* C10: an in-place composition that fails (RuntimeError on a preset
\* conflict, SyntaxError on a string that does not compile) leaves the
\* instructions, the free variables, the argument order and the presets of
\* the left operand as they were.
C10_FailedComposeChangesNothing ==
    (result.op = "icombine" /\ result.status \in {"RuntimeError", "SyntaxError"}) =>
       /\ left.expr = result.self0.expr
       /\ left.argsused = result.self0.argsused
       /\ left.args = result.self0.args
       /\ left.vars = result.self0.vars

\* the left operand of a reflected composition is a number or a string
\* that compiles
Parseable(other) ==
    \/ other.kind = "num"
    \/ other.kind = "str" /\ new(other.text, <<>>).status = "ok"

\* the program of such a left operand
OperandProgram(other) ==
    IF other.kind = "num"
    THEN Object(<<ExpressionValue(IntVal(other.num))>>, <<>>, <<>>, {})
    ELSE new(other.text, <<>>).obj

\* C11: other op fn, for a number or a parseable string other, returns a
\* new program whose instructions are those of other, then those of fn,
\* then one binary Call; whose free variables are the union of both; fn
\* is left as it was.
C11_ReflectedCompose ==
    (result.op = "rcombine" /\ result.operator \in DOMAIN ops
     /\ Parseable(result.other)) =>
       /\ result.status = "ok"
       /\ result.obj.expr = OperandProgram(result.other).expr
                               \o result.self0.expr
                               \o <<BinaryCall(result.operator)>>
       /\ result.obj.argsused =
             OperandProgram(result.other).argsused \cup result.self0.argsused
       /\ left = result.self0

\* the function abs accepts one argument: registered with 1, with a list
\* holding 1, or with "+"
AcceptsOneArgument(fns) ==
    /\ AbsId \in DOMAIN fns
    /\ \/ fns[AbsId].args = ArgsInt(1)
       \/ fns[AbsId].args.type \in {"list", "star"} /\ 1 \in fns[AbsId].args.set
       \/ fns[AbsId].args = ArgsPlus

\* C12: abs(fn), when abs is registered and accepts one argument, returns
\* a new program: a clone of fn with one trailing Call of abs of arity 1;
\* fn is left as it was.
C12_AbsoluteValue ==
    (result.op = "applycall" /\ AcceptsOneArgument(result.fns)) =>
       /\ result.status = "ok"
       /\ result.obj = [clone(result.self0) EXCEPT !.expr = Append(@,
             ExpressionFunction("abs", ArgsInt(1), FnForm(AbsId), FnDisplay(AbsId),
                                AbsId, FALSE))]
       /\ left = result.self0

\* C13: for every program a successful compile returns, repr(fn) and
\* str(fn) both complete without error and return one string.
C13_RenderTotal ==
    compiler.status = "ok" =>
       /\ repr(compiler.expr).status = "ok"
       /\ str(compiler.expr).status = "ok"

(***************************************************************************)
(* SpecDisplay: Expression("1500.0"), then str(fn) or repr(fn), for the    *)
(* decimal texts of a float.                                               *)
(***************************************************************************)
MaxWhole == 4

MaxFraction == 2

FloatDigits == {"0", "1", "5"}

\* the digits before the point
WholeTexts == UNION {[1..k -> FloatDigits] : k \in 1..MaxWhole}

\* the digits after the point
FractionTexts == UNION {[1..k -> FloatDigits] : k \in 1..MaxFraction}

FloatTexts == {w \o <<".">> \o f : w \in WholeTexts, f \in FractionTexts}

\* texts whose display takes the branches that the short texts do not:
\* a negative exponent, an exponent above the integer band, more than
\* five decimals
FloatExamples ==
    { <<"0", ".", "0", "1", "5", "1", "5", "1">>,
      <<"0", ".", "0", "0", "0", "0", "1", "5">>,
      <<"1", ".", "0", "0", "0", "0", "0", "1">>,
      <<"1", ".", "5", "1", "5", "1", "5", "5">>,
      <<"1", "5", "0", "0", "0", "0", ".", "0">>,
      <<"1", "5", "1", "5", "1", "5", ".", "5">> }

InitDisplay ==
    /\ input \in FloatTexts \cup FloatExamples
    /\ compiler = Idle
    /\ left = NoObject
    /\ right = NoObject
    /\ result = NoResult

\* Expression(input): one literal, the float of the text
ConstructLiteral ==
    /\ result = NoResult
    /\ left' = Object(<<ExpressionValue(FloatLiteral(
                   Take(input, Run(input, Digits)),
                   Drop(input, Run(input, Digits) + 1)))>>, <<>>, <<>>, {})
    /\ result' = [op |-> "literal"]
    /\ UNCHANGED <<input, compiler, right>>

\* what str or repr has returned or raised
Shown(op, r) == [op |-> op, status |-> r.status, text |-> r.text]

\* str(left)
Display ==
    /\ result.op = "literal"
    /\ result' = Shown("str", str(left.expr))
    /\ UNCHANGED <<input, compiler, left, right>>

\* repr(left)
Canonical ==
    /\ result.op = "literal"
    /\ result' = Shown("repr", repr(left.expr))
    /\ UNCHANGED <<input, compiler, left, right>>

NextDisplay == ConstructLiteral \/ Display \/ Canonical

SpecDisplay == InitDisplay /\ [][NextDisplay]_vars

Float1500 == <<"1", "5", "0", "0", ".", "0">>

RECURSIVE TrailingZeros(_)
TrailingZeros(n) == IF n % 10 = 0 THEN 1 + TrailingZeros(n \div 10) ELSE 0

\* the integers nearest to n * 10^5 / 10^s: one, or at a tie the two
\* neighbours (which of them the binary value of the float rounds to is
\* not told by its decimal digits)
Nearest5(n, s) ==
    IF s <= 5 THEN {n * Pow10(5 - s)}
    ELSE LET q == Pow10(s - 5)
             d == n \div q
             r == n % q
         IN  IF 2 * r < q THEN {d}
             ELSE IF 2 * r > q THEN {d + 1}
             ELSE {d, d + 1}

\* n / 10^s written with five decimals, the "0" and "." that end the
\* text taken off
FiveDecimals(n, s) == {RStrip(Point5(d)) : d \in Nearest5(n, s)}

\* what the digits of an unsigned float text say its display is: n is the
\* integer of all the digits, scale the number of digits after the point
\* (V = n / 10^scale), e = floor(log10 V)
FormsOf(n, scale, e) ==
    IF n = 0 THEN {<<"0">>}
    ELSE IF n % Pow10(scale) = 0 /\ e \in 0..3
    THEN {NatStr(n \div Pow10(scale))}
    ELSE IF e = 0 \/ (e \in {-1, -2} /\ scale - TrailingZeros(n) <= 5)
    THEN FiveDecimals(n, scale)
    ELSE {Left \o m \o Times10(e) \o Right : m \in FiveDecimals(n, scale + e)}

Digits10(text) ==
    ParseInt(Take(text, Run(text, Digits))
                \o Drop(text, Run(text, Digits) + 1), 10)

DisplayForms(text) ==
    FormsOf(Digits10(text),
            Len(text) - Run(text, Digits) - 1,
            Len(NatStr(Digits10(text))) - 1
               - (Len(text) - Run(text, Digits) - 1))

C15_ArgOrderUntouched ==
    compiler.status \notin {"idle", "run", "ok"} =>
       compiler.args = compiler.argorder

\* C16: for every program fn, Expression(repr(fn)) succeeds and builds
\* the instruction sequence of fn: the same kinds, literal values,
\* variable names, function ids and arities, in the same order.
C16_RenderReconstructs ==
    result.op = "reconstruct" =>
       /\ result.status = "ok"
       /\ right.expr = left.expr

\* the names of the VariableRef instructions of a program
VariableNames(fn) ==
    {fn.expr[i].name : i \in {j \in 1..Len(fn.expr) : fn.expr[j].kind = "Variable"}}

\* C17: after construction, with or without an argument-order list, and
\* after any presets set or deleted and any calls, the program fn has
\* every key of its preset map and every name of its argument-order list
\* in its free-variable set, and that set is exactly the set of the
\* names of its VariableRef instructions.
C17_DataModel ==
    /\ Keys(left.vars) \subseteq left.argsused
    /\ {left.args[i] : i \in 1..Len(left.args)} \subseteq left.argsused
    /\ left.argsused = VariableNames(left)

\* the height of the value stack after the instructions of expr, walked
\* from height; -1 as soon as a Call finds fewer values than its arity
RECURSIVE Height(_, _)
Height(expr, height) ==
    IF expr = <<>> THEN height
    ELSE IF Head(expr).kind # "Function" THEN Height(Tail(expr), height + 1)
    ELSE IF Head(expr).nargs.n > height THEN -1
    ELSE Height(Tail(expr), height - Head(expr).nargs.n + 1)

\* every free variable of the program bound to 1
AllBound(argsused) == [name \in argsused |-> Num(1, 0)]

\* C18: every program a successful compile returns is a well-formed
\* postfix program: each Call finds at least arity values on the value
\* stack, and evaluating it with all free variables bound never pops from
\* an empty stack.
C18_WellFormedPostfix ==
    compiler.status = "ok" =>
       /\ Height(compiler.expr, 0) >= 0
       /\ ExecWalk(compiler.expr, <<>>, AllBound(compiler.argsused)).status
             # "IndexError"

\* a binary or unary operator on the operator stack
IsOperator(token) == token.kind \in {"OP", "UNARY"}

\* its registered precedence integer
PrecOf(token) ==
    IF token.kind = "UNARY" THEN unary_ops[token.text].prec
    ELSE ops[token.text].prec

\* a step that handles a binary operator token
OperatorStep == Running /\ Taken = "OP"

\* the tokens of the stack, from the top down, that pops(top, incoming)
\* takes off: operators all, down to the first token that is not one or
\* whose precedence integer does not pass
Popped(stack, incoming, pops(_, _)) ==
    LET passes(i) == /\ IsOperator(stack[i])
                     /\ pops(PrecOf(stack[i]), incoming)
        run(n) == \A i \in (Len(stack) - n + 1)..Len(stack) : passes(i)
    IN  CHOOSE n \in 0..Len(stack) :
            /\ run(n)
            /\ n < Len(stack) => ~passes(Len(stack) - n)

\* the popping has come to a token that is neither an operator nor a paren:
\* the name of a function written without its parenthesis, as in "f 1+"
ReachesName(stack, n) ==
    /\ n < Len(stack)
    /\ ~IsOperator(stack[Len(stack) - n])
    /\ stack[Len(stack) - n].text # <<"(">>

\* the step pops and emits the n operators on top of the stack and pushes
\* the incoming operator
PopsAndPushes(n) ==
    /\ compiler'.status = "run"
    /\ Len(compiler'.expr) = Len(compiler.expr) + n
    /\ compiler'.stack
          = SubSeq(compiler.stack, 1, Len(compiler.stack) - n) \o <<Scanned.tok>>
    /\ \A i \in 1..n :
          /\ compiler'.expr[Len(compiler.expr) + i].kind = "Function"
          /\ compiler'.expr[Len(compiler.expr) + i].id
                = compiler.stack[Len(compiler.stack) - i + 1].text

\* the step pops and emits the operators on top of the stack exactly while
\* pops(top, incoming) holds of their precedence integers, stops at a paren
\* or an empty stack, and pushes the incoming operator; when the popping
\* comes to a function name instead, the compilation fails with TypeError
PopsExactlyWhile(pops(_, _)) ==
    IF ReachesName(compiler.stack,
                   Popped(compiler.stack, PrecOf(Scanned.tok), pops))
    THEN compiler'.status = "TypeError"
    ELSE PopsAndPushes(Popped(compiler.stack, PrecOf(Scanned.tok), pops))

\* C19 as stated: the operators popped are those whose precedence integer
\* is greater than or equal to that of the incoming operator.
C19_PopsGreaterOrEqual ==
    [][OperatorStep => PopsExactlyWhile(LAMBDA top, incoming : top >= incoming)]_vars

\* C19: when a binary operator token arrives while an operator is
\* expected, the compiler pops and emits operators from the stack exactly
\* while the stack top is an operator (not a paren) whose registered
\* precedence integer is less than or equal to that of the incoming
\* operator (a smaller integer binds tighter; equal integers pop, which
\* gives left associativity), stops at a paren or an empty stack, and then
\* pushes the incoming operator; when the popping comes to the name of a
\* function that was written without its parenthesis, the compilation
\* fails with TypeError and nothing is pushed.
C19_PopsLessOrEqual ==
    [][OperatorStep => PopsExactlyWhile(LAMBDA top, incoming : top <= incoming)]_vars

\* "f 1+": the "+" finds the function name on top of the stack
C19_RaisesAtName ==
    /\ input = <<"f", " ", "1", "+">>
    /\ compiler.status = "TypeError"
    /\ compiler.prev_token.kind = "VALUE"

\* "2*3+1": the "+" (3) has popped the "*" (2)
C19_Witness ==
    /\ input = <<"2", "*", "3", "+", "1">>
    /\ compiler.status = "run"
    /\ compiler.prev_token.text = <<"+">>
    /\ Len(compiler.expr) = 3
    /\ compiler.expr[3].id = <<"*">>
    /\ Len(compiler.stack) = 1
    /\ compiler.stack[1].text = <<"+">>


(***************************************************************************)
(* SpecScan: Expression(text) for the three registry tables as             *)
(* recalculateFMatch finds them: each table holds what the setup code has  *)
(* added so far, which may be nothing.                                     *)
(***************************************************************************)
MaxScan == 3

\* the key sets of ops, functions and unary_ops when recalculateFMatch runs:
\* all of this model's registry, or a table still empty (core.py 990-993)
ScanRegistries ==
    {[ops |-> o, functions |-> f, unary_ops |-> u] :
        o \in {DOMAIN ops, {}}, f \in {DOMAIN functions, {}},
        u \in {DOMAIN unary_ops, {}}}

InitScan ==
    /\ input \in Texts(MaxScan)
    /\ \E keys \in ScanRegistries : compiler = CompileInitWith(input, <<>>, keys)
    /\ left = NoObject
    /\ right = NoObject
    /\ result = NoResult

\* core.py 961-966: a token no branch of the loop body takes
UnexpectedToken ==
    /\ Running
    /\ Taken = "UNEXPECTED"
    /\ compiler' = Step(compiler)
    /\ UNCHANGED <<input, left, right, result>>

NextScan == Next \/ UnexpectedToken

SpecScan == InitScan /\ [][NextScan]_vars

\* C20: compilation always terminates: every call of the scanner that
\* returns a token has shortened the remaining input by at least one
\* character.  With an empty registry table the pattern recalculateFMatch
\* builds matches the empty text, and the token returned consumes nothing.
C20_TokenShortens ==
    [][(Running /\ Scanned.status = "token")
          => Len(compiler'.expression) < Len(compiler.expression)]_vars

\* the text followed by n blanks
Trailing(text, n) == text \o [k \in 1..n |-> " "]

\* C21: trailing whitespace is insignificant: a text that compiles to a
\* program also compiles when one or more whitespace characters follow it,
\* and to the same instruction sequence.
C21_TrailingWhitespace ==
    compiler.status = "ok"
        => \A n \in 1..2 :
              /\ compile(Trailing(input, n), compiler.argorder).status = "ok"
              /\ compile(Trailing(input, n), compiler.argorder).expr = compiler.expr

====
